---- MODULE Spec2Model ----
(***************************************************************************)
(* Model of the release-pr action (src/src/main.ts): the top-level run,    *)
(* the workspace resolver (findCrate, pkgid, parseWorkspacePkg), the       *)
(* release driver (runCargoRelease) and the pull-request step (makePR).    *)
(*                                                                         *)
(* Strings that the code takes apart are modelled by their parts:          *)
(*   - a filesystem path or the path part of a URL is the sequence of its  *)
(*     pieces between "/" characters: "/a/b" is <<"", "a", "b">>, "a/" is  *)
(*     <<"a", "">>, the empty string is <<"">>;                            *)
(*   - a workspace member string is a record of the pieces the regular     *)
(*     expression of parseWorkspacePkg looks at;                           *)
(*   - a template is a sequence of tokens, literal text or <%= x %> tags.  *)
(* An optional value (undefined in the code) is <<>>, a present value v is *)
(* <<v>>.                                                                  *)
(***************************************************************************)
EXTENDS Naturals, Sequences, FiniteSets, TLC

VARIABLES
    pc,          \* position of the run in the top-level async function
    inputs,      \* the result of getInputs()
    ws,          \* workspace_members as `cargo metadata` reports them now
    fileText,    \* contents of the file pr.templateFile names, <<>> if unreadable
    calls,       \* the external calls issued so far, in order, with their outcome
    outputs,     \* values given to setOutput
    failed,      \* message given to setFailed, <<>> if none
    parsed,      \* member strings handed to parseWorkspacePkg so far
    warned,      \* member strings parseWorkspacePkg warned about and skipped
    baseBranch,  \* main: const baseBranch
    branchName,  \* main: const branchName
    crate,       \* main: const crate
    newVersion,  \* main: const newVersion
    vars,        \* makePR: const vars (title added late)
    title,       \* makePR: const title
    template,    \* makePR: let template
    body         \* makePR: const body

vars_all == <<pc, inputs, ws, fileText, calls, outputs, failed, parsed, warned, baseBranch,
              branchName, crate, newVersion, vars, title, template, body>>

-----------------------------------------------------------------------------
(* Bounds of the model.                                                    *)

\* longest workspace member list `cargo metadata` reports
MaxMembers == 2
\* most segments after the leading "/" in a crate-path input
MaxHintSegs == 2

-----------------------------------------------------------------------------
(* Optional values and JavaScript truthiness.                              *)

None == <<>>
Some(v) == <<v>>

\* A string input is truthy unless undefined, null or the empty string.
TruthyName(n) == n # None /\ n[1] # ""
TruthyPath(p) == p # None /\ p[1] # <<"">>

-----------------------------------------------------------------------------
(* path.normalize (POSIX), as used in pkgid and parseWorkspacePkg.         *)

IsAbsolute(p) == Len(p) >= 2 /\ p[1] = ""
HasTrailingSeparator(p) == Len(p) >= 2 /\ p[Len(p)] = ""

RECURSIVE normalizeString(_, _, _)
normalizeString(segs, res, allowAboveRoot) ==
    IF segs = <<>> THEN res
    ELSE LET s == Head(segs)
             rest == Tail(segs)
         IN  IF s = "" \/ s = "."
             THEN normalizeString(rest, res, allowAboveRoot)
             ELSE IF s = ".."
             THEN IF res # <<>> /\ res[Len(res)] # ".."
                  THEN normalizeString(rest, SubSeq(res, 1, Len(res) - 1), allowAboveRoot)
                  ELSE IF allowAboveRoot
                  THEN normalizeString(rest, Append(res, ".."), allowAboveRoot)
                  ELSE normalizeString(rest, res, allowAboveRoot)
             ELSE normalizeString(rest, Append(res, s), allowAboveRoot)

normalize(p) ==
    IF p = <<"">> THEN <<".">>
    ELSE LET inner == normalizeString(p, <<>>, ~IsAbsolute(p))
         IN  IF inner = <<>>
             THEN IF IsAbsolute(p) THEN <<"", "">>
                  ELSE IF HasTrailingSeparator(p) THEN <<".", "">> ELSE <<".">>
             ELSE (IF IsAbsolute(p) THEN <<"">> ELSE <<>>)
                  \o inner
                  \o (IF HasTrailingSeparator(p) THEN <<"">> ELSE <<>>)

-----------------------------------------------------------------------------
(* new URL(url).pathname for a file: URL with an empty host: the URL       *)
(* parser drops "." and ".." segments itself, keeps empty segments, and    *)
(* leaves an empty last segment where the URL ended in a dot segment.      *)

RECURSIVE urlPathSegments(_, _)
urlPathSegments(segs, res) ==
    IF segs = <<>> THEN res
    ELSE LET s == Head(segs)
             last == Len(segs) = 1
             popped == IF res = <<>> THEN res ELSE SubSeq(res, 1, Len(res) - 1)
         IN  IF s = ".."
             THEN urlPathSegments(Tail(segs), IF last THEN Append(popped, "") ELSE popped)
             ELSE IF s = "."
             THEN urlPathSegments(Tail(segs), IF last THEN Append(res, "") ELSE res)
             ELSE urlPathSegments(Tail(segs), Append(res, s))

URLpathname(url) == <<"">> \o urlPathSegments(Tail(url), <<>>)

-----------------------------------------------------------------------------
(* Workspace member strings.  A member string is                           *)
(*   [text, name, version, scheme, url]                                    *)
(* text = "member": the string reads `name version (path+scheme//url)`,    *)
(* scheme being "file:" or "https:" and url the path after the host;       *)
(* text = "garbage": it has some other form (the other fields are unused). *)

Member(name, version, scheme, url) ==
    [text |-> "member", name |-> name, version |-> version, scheme |-> scheme, url |-> url]

Garbage == [text |-> "garbage", name |-> "", version |-> "", scheme |-> "", url |-> <<"">>]

\* pkg.match(/^(\S+) (\S+) \(path\+(file:[/]{2}.+)\)$/)
RegexMatches(pkg) ==
    /\ pkg.text = "member"
    /\ pkg.name # ""
    /\ pkg.version # ""
    /\ pkg.scheme = "file:"
    /\ pkg.url # <<"">>

\* new URL(url).protocol
URLprotocol(pkg) == pkg.scheme

Null == [tag |-> "null"]
Throw(msg) == [tag |-> "throw", msg |-> msg]
Return(v) == [tag |-> "return", val |-> v]

CrateDetails(name, path, version) == [name |-> name, path |-> path, version |-> version]

\* parseWorkspacePkg throwing where it should skip
parseWorkspacePkgStrict(pkg) ==
    IF ~RegexMatches(pkg) THEN Throw("could not parse package format")
    ELSE IF URLprotocol(pkg) # "file:"
    THEN Throw("pkgid is returning a non-local crate")
    ELSE Return(CrateDetails(pkg.name, normalize(URLpathname(pkg.url)), pkg.version))

parseWorkspacePkg(pkg) ==
    IF ~RegexMatches(pkg) THEN Null
    ELSE IF URLprotocol(pkg) # "file:"
    THEN Throw("pkgid is returning a non-local crate")
    ELSE Return(CrateDetails(pkg.name, normalize(URLpathname(pkg.url)), pkg.version))

-----------------------------------------------------------------------------
(* pkgid: the loop over workspace_members, or the single-member case.      *)
(* The result carries, beside the return value or the error, the member    *)
(* strings handed to parseWorkspacePkg and those it skipped with a warning.*)

Outcome(r, seen, skipped) == [r |-> r, seen |-> seen, skipped |-> skipped]

\* a comparison that looks at the path only when no name is given
MatchesNameFirst(crateArg, c) ==
    IF TruthyName(crateArg.name) THEN crateArg.name[1] = c.name
    ELSE TruthyPath(crateArg.path) /\ crateArg.path[1] = c.path

\* a comparison that wants both hints to match
MatchesBoth(crateArg, c) ==
    /\ (TruthyName(crateArg.name) /\ crateArg.name[1] = c.name)
    /\ (TruthyPath(crateArg.path) /\ crateArg.path[1] = c.path)

\* lines 337-340: the hint is compared as given, with the parsed member
Matches(crateArg, c) ==
    \/ (TruthyName(crateArg.name) /\ crateArg.name[1] = c.name)
    \/ (TruthyPath(crateArg.path) /\ crateArg.path[1] = c.path)

RECURSIVE pkgidLoop(_, _, _, _, _)
pkgidLoop(crateArg, pkgs, i, seen, skipped) ==
    IF i > Len(pkgs)
    THEN Outcome(Throw("no matching crate found"), seen, skipped)
    ELSE LET p == parseWorkspacePkg(pkgs[i])
             seen1 == seen \cup {pkgs[i]}
         IN  IF p.tag = "throw" THEN Outcome(p, seen1, skipped)
             ELSE IF p.tag = "null"
             THEN pkgidLoop(crateArg, pkgs, i + 1, seen1, skipped \cup {pkgs[i]})
             ELSE IF Matches(crateArg, p.val)
             THEN Outcome(p, seen1, skipped)
             ELSE pkgidLoop(crateArg, pkgs, i + 1, seen1, skipped)

\* pkgid taking the first member whenever no hint is given
pkgidAnyLength(crateArg, pkgs) ==
    IF TruthyName(crateArg.name) \/ TruthyPath(crateArg.path)
    THEN pkgidLoop(crateArg, pkgs, 1, {}, {})
    ELSE IF Len(pkgs) >= 1
    THEN LET p == parseWorkspacePkg(pkgs[1])
         IN  IF p.tag = "null"
             THEN Outcome(Throw("no good crate found"), {pkgs[1]}, {pkgs[1]})
             ELSE Outcome(p, {pkgs[1]}, {})
    ELSE Outcome(Throw("no matching crate found"), {}, {})

pkgid(crateArg, pkgs) ==
    IF TruthyName(crateArg.name) \/ TruthyPath(crateArg.path)
    THEN pkgidLoop(crateArg, pkgs, 1, {}, {})
    ELSE IF Len(pkgs) = 1
    THEN LET p == parseWorkspacePkg(pkgs[1])
         IN  IF p.tag = "null"
             THEN Outcome(Throw("no good crate found"), {pkgs[1]}, {pkgs[1]})
             ELSE Outcome(p, {pkgs[1]}, {})
    ELSE Outcome(Throw("no matching crate found"), {}, {})

CrateArgs(name, path) == [name |-> name, path |-> path]

\* findCrate refusing to guess when no hint is given
findCrateHinted(arg, pkgs) ==
    IF ~TruthyName(arg.name) /\ ~TruthyPath(arg.path)
    THEN Outcome(Throw("no matching crate found"), {}, {})
    ELSE pkgid(CrateArgs(arg.name, arg.path), pkgs)

findCrate(arg, pkgs) ==
    IF ~TruthyName(arg.name) /\ ~TruthyPath(arg.path)
    THEN pkgid(CrateArgs(None, None), pkgs)
    ELSE IF TruthyName(arg.name) /\ ~TruthyPath(arg.path)
    THEN pkgid(CrateArgs(arg.name, None), pkgs)
    ELSE IF ~TruthyName(arg.name) /\ TruthyPath(arg.path)
    THEN pkgid(CrateArgs(None, arg.path), pkgs)
    ELSE pkgid(CrateArgs(arg.name, arg.path), pkgs)

-----------------------------------------------------------------------------
(* Templates and ejs render.  A token is literal text or an output tag     *)
(* <%= name %>; a tag that names a variable the locals do not hold makes   *)
(* ejs throw a ReferenceError.  The strings of the model hold no character *)
(* that the tag's HTML escaping changes.                                   *)

Text(s) == [kind |-> "text", s |-> s]
Tag(s) == [kind |-> "tag", s |-> s]

\* the locals with the requested version reported as the actual one
TemplateVarsSwapped(pr, c, nv, desired, branch) ==
    [pr |-> pr,
     crate |-> [name |-> c.name, path |-> c.path],
     version |-> [previous |-> c.version, actual |-> desired, desired |-> nv],
     branchName |-> branch,
     title |-> None]

TemplateVars(pr, c, nv, desired, branch) ==
    [pr |-> pr,
     crate |-> [name |-> c.name, path |-> c.path],
     version |-> [previous |-> c.version, actual |-> nv, desired |-> desired],
     branchName |-> branch,
     title |-> None]

\* the value of a tag's variable in the locals, None if it is not defined
Lookup(v, name) ==
    CASE name = "crate.name" -> Some(v.crate.name)
      [] name = "version.previous" -> Some(v.version.previous)
      [] name = "version.actual" -> Some(v.version.actual)
      [] name = "version.desired" -> Some(v.version.desired)
      [] name = "branchName" -> Some(v.branchName)
      [] name = "title" -> v.title
      [] OTHER -> None

RECURSIVE renderTokens(_, _, _)
renderTokens(tokens, v, out) ==
    IF tokens = <<>> THEN Return(out)
    ELSE LET t == Head(tokens)
         IN  IF t.kind = "text" THEN renderTokens(Tail(tokens), v, out \o t.s)
             ELSE IF Lookup(v, t.s) = None THEN Throw(t.s \o " is not defined")
             ELSE renderTokens(Tail(tokens), v, out \o Lookup(v, t.s)[1])

render(tmpl, v) == renderTokens(tmpl, v, "")

WhiteSpace == {"", " ", "\n", " \n"}

\* the length test without the trim
IsBlankUntrimmed(t) == t = None \/ t[1] = <<>>

\* !template?.trim().length
IsBlank(t) == t = None \/ \A i \in 1..Len(t[1]) : t[1][i].kind = "text" /\ t[1][i].s \in WhiteSpace

\* the contents of default-template.ejs, shipped beside the program
DefaultTemplate == <<Text("default-template.ejs: "), Tag("title")>>

-----------------------------------------------------------------------------
(* External calls.  Each is logged with the outcome the environment gave.  *)

Exits == {"0", "1", "spawn error"}

\* options: the ExecOptions of a process, the parameters of a request
Call(program, args, options, exit) ==
    [program |-> program, args |-> args, options |-> options, exit |-> exit]

OutputNames == {"pr-branch", "version", "pr-url"}

\* an output that replaces the outputs set before it
setOutputAlone(o, name, value) ==
    [n \in DOMAIN o |-> IF n = name THEN Some(value) ELSE None]

setOutput(o, name, value) == [o EXCEPT ![name] = Some(value)]

\* a catch block that ends the run without setFailed
FailsUnreported(msg) ==
    /\ pc' = "done"
    /\ failed' = failed

\* the catch block of the top-level function: setFailed(error.message)
Fails(msg) ==
    /\ pc' = "done"
    /\ failed' = Some(msg)

ExitMessage(program, exit) ==
    IF exit = "spawn error" THEN "spawn " \o program \o " failed"
    ELSE program \o " exited with code " \o exit

\* execAndSucceed without the check of the exit code
execAndContinue(program, args, options, exit, next) ==
    /\ calls' = Append(calls, Call(program, args, options, exit))
    /\ pc' = next
    /\ failed' = failed

\* execAndSucceed: run the program, throw unless it exited with code 0; next is
\* the position after the call
execAndSucceed(program, args, options, exit, next) ==
    /\ calls' = Append(calls, Call(program, args, options, exit))
    /\ IF exit = "0"
       THEN pc' = next /\ failed' = failed
       ELSE Fails(ExitMessage(program, exit))

-----------------------------------------------------------------------------
(* main, lines 19-51: one action per awaited call.                         *)

\* setGithubUser: git config user.name
SetUserName ==
    /\ pc = "setGithubUser.name"
    /\ \E exit \in Exits :
        execAndSucceed("git", <<"config", "user.name", inputs.git.name>>, None, exit,
                       "setGithubUser.email")
    /\ UNCHANGED <<inputs, ws, fileText, outputs, parsed, warned, baseBranch, branchName,
                   crate, newVersion, vars, title, template, body>>

\* setGithubUser: git config user.email; then inputs.baseBranch || ...
SetUserEmail ==
    /\ pc = "setGithubUser.email"
    /\ \E exit \in Exits :
        /\ execAndSucceed("git", <<"config", "user.email", inputs.git.email>>, None, exit,
                          IF TruthyName(inputs.baseBranch) THEN "makeBranch"
                          ELSE "getDefaultBranch")
        /\ baseBranch' = IF exit = "0" /\ TruthyName(inputs.baseBranch)
                         THEN inputs.baseBranch ELSE baseBranch
    /\ UNCHANGED <<inputs, ws, fileText, outputs, parsed, warned, branchName,
                   crate, newVersion, vars, title, template, body>>

\* getDefaultBranch: GET /repos/{owner}/{repo}
GetDefaultBranch ==
    /\ pc = "getDefaultBranch"
    /\ \E ok \in BOOLEAN :
        /\ calls' = Append(calls, Call("octokit", <<"GET /repos/{owner}/{repo}">>, None,
                                       IF ok THEN "0" ELSE "1"))
        /\ IF ok
           THEN /\ baseBranch' = Some("main")
                /\ pc' = "makeBranch"
                /\ failed' = failed
           ELSE /\ baseBranch' = baseBranch
                /\ Fails("GET /repos/{owner}/{repo} failed")
    /\ UNCHANGED <<inputs, ws, fileText, outputs, parsed, warned, branchName,
                   crate, newVersion, vars, title, template, body>>

\* a branch name joined without the configured separator
BranchNameOfDashed(inp) == inp.git.branchPrefix \o "-" \o inp.version

\* [branchPrefix, version].join(branchSeparator)
BranchNameOf(inp) == inp.git.branchPrefix \o inp.git.branchSeparator \o inp.version

\* makeBranch: git switch -c, then setOutput('pr-branch')
MakeBranch ==
    /\ pc = "makeBranch"
    /\ \E exit \in Exits :
        /\ execAndSucceed("git", <<"switch", "-c", BranchNameOf(inputs)>>, None, exit,
                          "findCrate")
        /\ IF exit = "0"
           THEN /\ outputs' = setOutput(outputs, "pr-branch", BranchNameOf(inputs))
                /\ branchName' = Some(BranchNameOf(inputs))
           ELSE UNCHANGED <<outputs, branchName>>
    /\ UNCHANGED <<inputs, ws, fileText, parsed, warned, baseBranch,
                   crate, newVersion, vars, title, template, body>>

\* execWithOutput('cargo', ['metadata', '--format-version=1'])
MetadataCall(exit) == Call("cargo", <<"metadata", "--format-version=1">>, None, exit)

\* findCrate(inputs.crate): the metadata query, then the selection
FindCrate ==
    /\ pc = "findCrate"
    /\ \E exit \in Exits :
        /\ calls' = Append(calls, MetadataCall(exit))
        /\ IF exit # "0"
           THEN /\ Fails(ExitMessage("cargo", exit))
                /\ UNCHANGED <<crate, parsed, warned>>
           ELSE LET o == findCrate(inputs.crate, ws)
                IN  /\ parsed' = parsed \cup o.seen
                    /\ warned' = warned \cup o.skipped
                    /\ IF o.r.tag = "return"
                       THEN /\ crate' = Some(o.r.val)
                            /\ pc' = "toolExists.cargo-release"
                            /\ failed' = failed
                       ELSE /\ crate' = crate
                            /\ Fails(o.r.msg)
    /\ UNCHANGED <<inputs, ws, fileText, outputs, baseBranch, branchName,
                   newVersion, vars, title, template, body>>

-----------------------------------------------------------------------------
(* runCargoRelease, lines 128-176.                                         *)

\* a probe that takes every program it could spawn to be available
toolExistsIfSpawned(exit) == exit # "spawn error"

\* toolExists(name): run `name --help`; true exactly on exit code 0, false on a
\* non-zero exit and on a spawn error alike
toolExists(exit) == exit = "0"

ProbeCall(name, exit) == Call(name, <<"--help">>, None, exit)

ProbeCargoRelease ==
    /\ pc = "toolExists.cargo-release"
    /\ \E exit \in Exits :
        /\ calls' = Append(calls, ProbeCall("cargo-release", exit))
        /\ pc' = IF ~toolExists(exit) THEN "toolExists.cargo-binstall" ELSE "cargo release"
    /\ UNCHANGED <<inputs, ws, fileText, outputs, failed, parsed, warned, baseBranch,
                   branchName, crate, newVersion, vars, title, template, body>>

\* the installers taken the wrong way round
ProbeCargoBinstallInverted ==
    /\ pc = "toolExists.cargo-binstall"
    /\ \E exit \in Exits :
        /\ calls' = Append(calls, ProbeCall("cargo-binstall", exit))
        /\ pc' = IF toolExists(exit) THEN "cargo install" ELSE "cargo binstall"
    /\ UNCHANGED <<inputs, ws, fileText, outputs, failed, parsed, warned, baseBranch,
                   branchName, crate, newVersion, vars, title, template, body>>

ProbeCargoBinstall ==
    /\ pc = "toolExists.cargo-binstall"
    /\ \E exit \in Exits :
        /\ calls' = Append(calls, ProbeCall("cargo-binstall", exit))
        /\ pc' = IF toolExists(exit) THEN "cargo binstall" ELSE "cargo install"
    /\ UNCHANGED <<inputs, ws, fileText, outputs, failed, parsed, warned, baseBranch,
                   branchName, crate, newVersion, vars, title, template, body>>

CargoBinstall ==
    /\ pc = "cargo binstall"
    /\ \E exit \in Exits :
        execAndSucceed("cargo", <<"binstall", "cargo-release">>, None, exit, "cargo release")
    /\ UNCHANGED <<inputs, ws, fileText, outputs, parsed, warned, baseBranch, branchName,
                   crate, newVersion, vars, title, template, body>>

CargoInstall ==
    /\ pc = "cargo install"
    /\ \E exit \in Exits :
        execAndSucceed("cargo", <<"install", "cargo-release">>, None, exit, "cargo release")
    /\ UNCHANGED <<inputs, ws, fileText, outputs, parsed, warned, baseBranch, branchName,
                   crate, newVersion, vars, title, template, body>>

ReleaseArgs(branch, version) ==
    <<"release", "--execute", "--no-push", "--no-tag", "--no-publish", "--no-confirm",
      "--verbose", "--allow-branch", branch, "--dependent-version", "upgrade", version>>

Versions == {"1.0.0", "1.1.0"}

\* What the versioning tool may leave behind when it exits with code 0: it is
\* opaque, so any member's version may have changed or stayed.
Rewritten(m) ==
    IF m.text = "member" THEN {[m EXCEPT !.version = v] : v \in Versions} ELSE {m}

RECURSIVE ToolEffects(_)
ToolEffects(pkgs) ==
    IF pkgs = <<>> THEN {<<>>}
    ELSE {<<m>> \o rest : m \in Rewritten(Head(pkgs)), rest \in ToolEffects(Tail(pkgs))}

CargoRelease ==
    /\ pc = "cargo release"
    /\ \E exit \in Exits :
        /\ execAndSucceed("cargo", ReleaseArgs(branchName[1], inputs.version),
                          Some([cwd |-> crate[1].path]), exit, "pkgid")
        /\ IF exit = "0" THEN ws' \in ToolEffects(ws) ELSE ws' = ws
    /\ UNCHANGED <<inputs, fileText, outputs, parsed, warned, baseBranch, branchName,
                   crate, newVersion, vars, title, template, body>>

\* a comparison that never finds the versions identical
SameVersionNever(nv, c) == FALSE

\* line 171: newVersion === crate.version
SameVersion(nv, c) == nv = c.version

\* a re-resolution that answers from the result of the first query
ReResolveCached ==
    /\ pc = "pkgid"
    /\ \E exit \in Exits :
        /\ calls' = Append(calls, MetadataCall(exit))
        /\ IF exit # "0"
           THEN Fails(ExitMessage("cargo", exit))
           ELSE IF SameVersion(crate[1].version, crate[1])
           THEN Fails("New and old versions are identical, not proceeding")
           ELSE pc' = "pushBranch" /\ failed' = failed
    /\ UNCHANGED <<inputs, ws, fileText, outputs, parsed, warned, baseBranch, branchName,
                   crate, newVersion, vars, title, template, body>>

\* lines 167-175: pkgid(crate), the comparison with the old version, setOutput
ReResolve ==
    /\ pc = "pkgid"
    /\ \E exit \in Exits :
        /\ calls' = Append(calls, MetadataCall(exit))
        /\ IF exit # "0"
           THEN /\ Fails(ExitMessage("cargo", exit))
                /\ UNCHANGED <<newVersion, outputs, parsed, warned>>
           ELSE LET o == pkgid(CrateArgs(Some(crate[1].name), Some(crate[1].path)), ws)
                IN  /\ parsed' = parsed \cup o.seen
                    /\ warned' = warned \cup o.skipped
                    /\ IF o.r.tag # "return"
                       THEN /\ Fails(o.r.msg)
                            /\ UNCHANGED <<newVersion, outputs>>
                       ELSE IF SameVersion(o.r.val.version, crate[1])
                       THEN /\ Fails("New and old versions are identical, not proceeding")
                            /\ UNCHANGED <<newVersion, outputs>>
                       ELSE /\ outputs' = setOutput(outputs, "version", o.r.val.version)
                            /\ newVersion' = Some(o.r.val.version)
                            /\ pc' = "pushBranch"
                            /\ failed' = failed
    /\ UNCHANGED <<inputs, ws, fileText, baseBranch, branchName, crate, vars, title,
                   template, body>>

\* a push whose exit code is not looked at
pushBranchUnchecked(branch, exit) ==
    execAndContinue("git", <<"push", "origin", branch>>, None, exit, "makePR")

\* pushBranch: git push origin branchName
pushBranch(branch, exit) ==
    execAndSucceed("git", <<"push", "origin", branch>>, None, exit, "makePR")

PushBranch ==
    /\ pc = "pushBranch"
    /\ \E exit \in Exits : pushBranch(branchName[1], exit)
    /\ UNCHANGED <<inputs, ws, fileText, outputs, parsed, warned, baseBranch, branchName,
                   crate, newVersion, vars, title, template, body>>

-----------------------------------------------------------------------------
(* makePR, lines 182-247.                                                  *)

\* the locals left without the title
WithoutTitle(v, t) == v

\* line 211: vars.title = title
WithTitle(v, t) == [v EXCEPT !.title = Some(t)]

\* lines 190-211: the locals, the title, vars.title
RenderTitle ==
    /\ pc = "makePR"
    /\ LET v == TemplateVars(inputs.pr, crate[1], newVersion[1], inputs.version, branchName[1])
           t == render(inputs.pr.title, v)
       IN  IF t.tag = "throw"
           THEN /\ vars' = Some(v)
                /\ title' = title
                /\ template' = template
                /\ Fails(t.msg)
           ELSE /\ title' = Some(t.val)
                /\ vars' = Some(WithTitle(v, t.val))
                /\ template' = inputs.pr.template
                /\ pc' = "template"
                /\ failed' = failed
    /\ UNCHANGED <<inputs, ws, fileText, calls, outputs, parsed, warned, baseBranch,
                   branchName, crate, newVersion, body>>

AfterTemplate(t) == IF IsBlank(t) THEN "default template" ELSE "render body"

\* lines 213-219: pr.templateFile ? await fs.readFile(pr.templateFile) : pr.template
FileTexts ==
    {<<>>, <<Text(" \n")>>, <<Text("from file: "), Tag("title")>>, <<Tag("undefinedVariable")>>}

ReadTemplateFile ==
    /\ pc = "template"
    /\ IF TruthyName(inputs.pr.templateFile)
       THEN \E text \in {None} \cup {Some(t) : t \in FileTexts} :
            /\ fileText' = text
            /\ calls' = Append(calls, Call("fs.readFile", <<inputs.pr.templateFile[1]>>, None,
                                           IF text = None THEN "1" ELSE "0"))
            /\ IF text = None
               THEN /\ template' = template
                    /\ Fails("ENOENT")
               ELSE /\ template' = text
                    /\ pc' = AfterTemplate(text)
                    /\ failed' = failed
       ELSE /\ pc' = AfterTemplate(template)
            /\ UNCHANGED <<fileText, calls, template, failed>>
    /\ UNCHANGED <<inputs, ws, outputs, parsed, warned, baseBranch, branchName, crate,
                   newVersion, vars, title, body>>

\* lines 221-227: the default template, read from the program's directory
ReadDefaultTemplate ==
    /\ pc = "default template"
    /\ \E ok \in BOOLEAN :
        /\ calls' = Append(calls, Call("fs.readFile", <<"default-template.ejs">>, None,
                                       IF ok THEN "0" ELSE "1"))
        /\ IF ok
           THEN /\ template' = Some(DefaultTemplate)
                /\ pc' = "render body"
                /\ failed' = failed
           ELSE /\ template' = template
                /\ Fails("ENOENT")
    /\ UNCHANGED <<inputs, ws, fileText, outputs, parsed, warned, baseBranch, branchName,
                   crate, newVersion, vars, title, body>>

\* lines 229-230
RenderBody ==
    /\ pc = "render body"
    /\ LET b == render(template[1], vars[1])
       IN  IF b.tag = "throw"
           THEN body' = body /\ Fails(b.msg)
           ELSE body' = Some(b.val) /\ pc' = "create PR" /\ failed' = failed
    /\ UNCHANGED <<inputs, ws, fileText, calls, outputs, parsed, warned, baseBranch,
                   branchName, crate, newVersion, vars, title, template>>

PullRequest(t, b, head, base, modifiable, draft) ==
    [title |-> t, body |-> b, head |-> head, base |-> base,
     maintainer_can_modify |-> modifiable, draft |-> draft]

\* lines 232-246: POST /repos/{owner}/{repo}/pulls, then setOutput('pr-url')
CreatePR ==
    /\ pc = "create PR"
    /\ \E ok \in BOOLEAN :
        /\ calls' = Append(calls,
               Call("octokit",
                    <<"POST /repos/{owner}/{repo}/pulls">>,
                    Some(PullRequest(title[1], body[1], branchName[1], baseBranch[1],
                                     inputs.pr.modifiable, inputs.pr.draft)),
                    IF ok THEN "0" ELSE "1"))
        /\ IF ok
           THEN /\ outputs' = setOutput(outputs, "pr-url", "https://api.github.com/pulls/1")
                /\ pc' = "done"
                /\ failed' = failed
           ELSE /\ outputs' = outputs
                /\ Fails("POST /repos/{owner}/{repo}/pulls failed")
    /\ UNCHANGED <<inputs, ws, fileText, parsed, warned, baseBranch, branchName, crate,
                   newVersion, vars, title, template, body>>

-----------------------------------------------------------------------------
(* The inputs and workspaces of the model.                                 *)

PathA == <<"", "a">>
PathB == <<"", "b">>

\* the defaults of action.yml; the separator is the one getInputs supplies
GitInputs ==
    [name |-> "github-actions", email |-> "github-actions@github.com",
     branchPrefix |-> "release", branchSeparator |-> "/"]

DefaultTitle == <<Text("release: "), Tag("crate.name"), Text(" v"), Tag("version.actual")>>

TitleTemplates == {DefaultTitle, <<Text("release "), Tag("title")>>}

InlineTemplates == {None, Some(<<Text(" ")>>), Some(<<Tag("title"), Text(" on "), Tag("branchName")>>)}

TemplateFiles == {None, Some("pr.ejs")}

Inputs(name, path, version, base, titleT, tmpl, tfile) ==
    [crate |-> CrateArgs(name, path),
     version |-> version,
     baseBranch |-> base,
     git |-> GitInputs,
     pr |-> [title |-> titleT, template |-> tmpl, templateFile |-> tfile,
             draft |-> FALSE, modifiable |-> TRUE]]

\* all sequences over S of length 1..n
RECURSIVE SeqsUpTo(_, _)
SeqsUpTo(S, n) ==
    IF n = 0 THEN {}
    ELSE LET shorter == SeqsUpTo(S, n - 1)
         IN  {<<x>> : x \in S} \cup shorter \cup {Append(q, x) : q \in shorter, x \in S}

\* the runs: a few inputs of every kind, over small workspaces
RunPool == {Member("A", "1.0.0", "file:", PathA), Member("B", "1.0.0", "file:", PathB), Garbage}

\* cargo metadata lists each member of the workspace once
RunWorkspaces ==
    {q \in SeqsUpTo(RunPool, MaxMembers) :
        \A i, j \in 1..Len(q) : i # j => q[i] # q[j]}

RunInputs ==
    {Inputs(n, p, v, b, t, tmpl, tfile) :
        n \in {None, Some("B")}, p \in {None, Some(PathA)}, v \in {"patch", "1.1.0"},
        b \in {None, Some("develop")}, t \in TitleTemplates,
        tmpl \in InlineTemplates, tfile \in TemplateFiles}

NoOutputs == [n \in OutputNames |-> None]

Init ==
    /\ pc = "setGithubUser.name"
    /\ inputs \in RunInputs
    /\ ws \in RunWorkspaces
    /\ fileText = None
    /\ calls = <<>>
    /\ outputs = NoOutputs
    /\ failed = None
    /\ parsed = {}
    /\ warned = {}
    /\ baseBranch = None
    /\ branchName = None
    /\ crate = None
    /\ newVersion = None
    /\ vars = None
    /\ title = None
    /\ template = None
    /\ body = None

Next ==
    \/ SetUserName
    \/ SetUserEmail
    \/ GetDefaultBranch
    \/ MakeBranch
    \/ FindCrate
    \/ ProbeCargoRelease
    \/ ProbeCargoBinstall
    \/ CargoBinstall
    \/ CargoInstall
    \/ CargoRelease
    \/ ReResolve
    \/ PushBranch
    \/ RenderTitle
    \/ ReadTemplateFile
    \/ ReadDefaultTemplate
    \/ RenderBody
    \/ CreatePR

Spec == Init /\ [][Next]_vars_all

-----------------------------------------------------------------------------
(* The resolver on its own: the run has reached findCrate (the git user is *)
(* set, the branch is made), over every workspace up to MaxMembers members *)
(* and every pair of hints.                                                *)

ResolvePool ==
    {Member("A", v, "file:", u) : v \in Versions, u \in {PathA, PathB}}
    \cup {Member("B", "1.0.0", "file:", u) : u \in {PathA, PathB}}
    \cup {Member("A", "1.0.0", "file:", <<"", "b", ".">>),
          Member("B", "1.0.0", "file:", <<"", "b", "..", "a">>),
          Member("A", "1.0.0", "https:", PathA),
          Garbage}

ResolveWorkspaces == {<<>>} \cup SeqsUpTo(ResolvePool, MaxMembers)

HintNames == {None, Some(""), Some("A"), Some("B")}

HintPaths ==
    {None, Some(<<"">>), Some(<<"a">>), Some(<<"", "b", "">>)}
    \cup {Some(<<"">> \o q) : q \in SeqsUpTo({"a", "b", ".", ".."}, MaxHintSegs)}

InitResolve ==
    /\ pc = "findCrate"
    /\ inputs \in {Inputs(n, p, "patch", Some("develop"), DefaultTitle, None, None) :
                       n \in HintNames, p \in HintPaths}
    /\ ws \in ResolveWorkspaces
    /\ fileText = None
    /\ calls = <<Call("git", <<"config", "user.name", GitInputs.name>>, None, "0"),
                 Call("git", <<"config", "user.email", GitInputs.email>>, None, "0"),
                 Call("git", <<"switch", "-c", BranchNameOf(inputs)>>, None, "0")>>
    /\ outputs = setOutput(NoOutputs, "pr-branch", BranchNameOf(inputs))
    /\ failed = None
    /\ parsed = {}
    /\ warned = {}
    /\ baseBranch = Some("develop")
    /\ branchName = Some(BranchNameOf(inputs))
    /\ crate = None
    /\ newVersion = None
    /\ vars = None
    /\ title = None
    /\ template = None
    /\ body = None

NextResolve == FindCrate

SpecResolve == InitResolve /\ [][NextResolve]_vars_all

-----------------------------------------------------------------------------
(* The release driver alone, over the workspaces and hints of the          *)
(* resolver: main has resolved the crate (line 29) and the probe has found *)
(* cargo-release; cargo release and the re-resolution of line 168 follow.  *)

InitRelease ==
    /\ pc = "cargo release"
    /\ inputs \in {Inputs(n, p, "patch", Some("develop"), DefaultTitle, None, None) :
                       n \in HintNames, p \in HintPaths}
    /\ ws \in ResolveWorkspaces
    /\ findCrate(inputs.crate, ws).r.tag = "return"
    /\ crate = Some(findCrate(inputs.crate, ws).r.val)
    /\ parsed = findCrate(inputs.crate, ws).seen
    /\ warned = findCrate(inputs.crate, ws).skipped
    /\ fileText = None
    /\ calls = <<Call("git", <<"config", "user.name", GitInputs.name>>, None, "0"),
                 Call("git", <<"config", "user.email", GitInputs.email>>, None, "0"),
                 Call("git", <<"switch", "-c", BranchNameOf(inputs)>>, None, "0"),
                 MetadataCall("0"),
                 ProbeCall("cargo-release", "0")>>
    /\ outputs = setOutput(NoOutputs, "pr-branch", BranchNameOf(inputs))
    /\ failed = None
    /\ baseBranch = Some("develop")
    /\ branchName = Some(BranchNameOf(inputs))
    /\ newVersion = None
    /\ vars = None
    /\ title = None
    /\ template = None
    /\ body = None

NextRelease ==
    \/ CargoRelease
    \/ ReResolve

SpecRelease == InitRelease /\ [][NextRelease]_vars_all

-----------------------------------------------------------------------------
(* The calls of the log, by kind.                                          *)

IsProbe(c) == c.args = <<"--help">>
IsConfigName(c) == c.program = "git" /\ c.args[1] = "config" /\ c.args[2] = "user.name"
IsConfigEmail(c) == c.program = "git" /\ c.args[1] = "config" /\ c.args[2] = "user.email"
IsSwitch(c) == c.program = "git" /\ c.args[1] = "switch"
IsMetadata(c) == c.program = "cargo" /\ c.args[1] = "metadata"
IsRelease(c) == c.program = "cargo" /\ c.args[1] = "release"
IsPush(c) == c.program = "git" /\ c.args[1] = "push"
IsCreatePR(c) == c.program = "octokit" /\ c.args[1] = "POST /repos/{owner}/{repo}/pulls"

StepName(c) ==
    CASE IsConfigName(c) -> "git config user.name"
      [] IsConfigEmail(c) -> "git config user.email"
      [] IsSwitch(c) -> "git switch -c"
      [] IsMetadata(c) -> "cargo metadata"
      [] IsRelease(c) -> "cargo release"
      [] IsPush(c) -> "git push"
      [] IsCreatePR(c) -> "create pull request"
      [] OTHER -> "other"

IsPipelineStep(c) == StepName(c) # "other"

PipelineOrder ==
    <<"git config user.name", "git config user.email", "git switch -c", "cargo metadata",
      "cargo release", "cargo metadata", "git push", "create pull request">>

PipelineSteps == SelectSeq(calls, IsPipelineStep)

\* the re-resolution of lines 167-168 has run: the versioning tool exited with
\* code 0 and the metadata query after it did too
ReResolvedAt(i) ==
    /\ i + 1 <= Len(calls)
    /\ IsRelease(calls[i]) /\ calls[i].exit = "0"
    /\ IsMetadata(calls[i + 1]) /\ calls[i + 1].exit = "0"

ReResolution == pkgid(CrateArgs(Some(crate[1].name), Some(crate[1].path)), ws)

-----------------------------------------------------------------------------
(* C1  No-op detection: when cargo release exited with code 0 and the      *)
(* re-resolved package has the version it had before, the run fails with   *)
(* the error of line 172, the `version` output is not set and nothing      *)
(* follows the re-resolution.                                              *)
C1_NoOpDetection ==
    \A i \in 1..Len(calls) :
        (/\ ReResolvedAt(i)
         /\ ReResolution.r.tag = "return"
         /\ ReResolution.r.val.version = crate[1].version)
        => /\ pc = "done"
           /\ failed = Some("New and old versions are identical, not proceeding")
           /\ outputs["version"] = None
           /\ newVersion = None
           /\ Len(calls) = i + 1

C1_Witness ==
    /\ \E i \in 1..Len(calls) : ReResolvedAt(i)
    /\ ReResolution.r.tag = "return"
    /\ ReResolution.r.val.version = crate[1].version
    /\ failed = Some("New and old versions are identical, not proceeding")

(* C2  Order of the externally visible steps: the calls to git config      *)
(* (name, email), git switch -c, cargo metadata, cargo release, cargo      *)
(* metadata, git push and the create-pull-request request appear in the    *)
(* log in exactly this order, each at most once; the create-pull-request   *)
(* call is the last call of the log and follows a git push that exited     *)
(* with code 0.                                                            *)
C2_StepOrder ==
    /\ LET steps == PipelineSteps
       IN  /\ Len(steps) <= Len(PipelineOrder)
           /\ \A i \in 1..Len(steps) : StepName(steps[i]) = PipelineOrder[i]
    /\ \A i \in 1..Len(calls) :
        IsCreatePR(calls[i])
        => /\ i = Len(calls)
           /\ \E j \in 1..(i - 1) : IsPush(calls[j]) /\ calls[j].exit = "0"

C2_Witness ==
    /\ pc = "done"
    /\ failed = None
    /\ Len(PipelineSteps) = Len(PipelineOrder)
    /\ IsCreatePR(calls[Len(calls)])

(* C3  Fail-stop without retry: a call other than an availability probe    *)
(* that failed is the last call of the log, the run is over and the failed *)
(* status is set; so every call before a later call, the create-pull-      *)
(* request call included, succeeded, and no call is repeated after it      *)
(* failed.                                                                 *)
C3_FailStop ==
    \A i \in 1..Len(calls) :
        (~IsProbe(calls[i]) /\ calls[i].exit # "0")
        => /\ i = Len(calls)
           /\ pc = "done"
           /\ failed # None

C3_Witness ==
    /\ calls # <<>>
    /\ IsPush(calls[Len(calls)])
    /\ calls[Len(calls)].exit = "1"
    /\ pc = "done"
    /\ failed = Some("git exited with code 1")

-----------------------------------------------------------------------------
(* The resolver's claims are stated of the state right after findCrate:    *)
(* its metadata query exited with code 0 and the versioning tool has not   *)
(* run yet, so ws is the member list the resolution read.                  *)

Resolved ==
    /\ pc \in {"toolExists.cargo-release", "done"}
    /\ calls # <<>>
    /\ calls[Len(calls)] = MetadataCall("0")
    /\ \A i \in 1..Len(calls) : ~IsRelease(calls[i])

NoNameHint == ~TruthyName(inputs.crate.name)
NoPathHint == ~TruthyPath(inputs.crate.path)

(* C4  Resolution failure on multiplicity: with two or more members and    *)
(* neither hint given, findCrate throws and no crate is returned.          *)
C4_FailsOnMultiplicity ==
    (Resolved /\ Len(ws) >= 2 /\ NoNameHint /\ NoPathHint)
    => /\ crate = None
       /\ pc = "done"
       /\ failed = Some("no matching crate found")

C4_Witness ==
    /\ Resolved
    /\ Len(ws) >= 2
    /\ \A i \in 1..Len(ws) : RegexMatches(ws[i])
    /\ inputs.crate = CrateArgs(None, None)
    /\ failed = Some("no matching crate found")

(* C5  Path normalization: resolving with a path hint gives the outcome    *)
(* that resolving with the normalized form of that hint gives.             *)
C5_NormalizedHint ==
    (Resolved /\ TruthyPath(inputs.crate.path))
    => LET n == findCrate(CrateArgs(inputs.crate.name,
                                    Some(normalize(inputs.crate.path[1]))), ws).r
       IN  IF n.tag = "return"
           THEN crate = Some(n.val)
           ELSE crate = None /\ failed = Some(n.msg)

\* a list of two member strings, one well-formed (at index g) and one malformed
OneGoodOneBad(g) ==
    /\ Len(ws) = 2
    /\ g \in {1, 2}
    /\ RegexMatches(ws[g])
    /\ ~RegexMatches(ws[3 - g])

GoodMember(g) == CrateDetails(ws[g].name, normalize(URLpathname(ws[g].url)), ws[g].version)

\* the hints do not exclude the crate c: each is absent, or is c's own
HintsAdmit(c) ==
    /\ (NoNameHint \/ inputs.crate.name = Some(c.name))
    /\ (NoPathHint \/ inputs.crate.path = Some(c.path))

(* C6 as stated  Malformed-member tolerance: with one well-formed and one  *)
(* malformed member string, in either order, resolution returns the        *)
(* well-formed member under no hints, its name, its path, or both.         *)
C6_Original ==
    \A g \in {1, 2} :
        (Resolved /\ OneGoodOneBad(g) /\ HintsAdmit(GoodMember(g)))
        => crate = Some(GoodMember(g))

(* C6 as amended  With one well-formed and one malformed member string, in *)
(* either order, resolution returns the well-formed member when its name,  *)
(* its path or both are given as hints; with no hint it fails, the list    *)
(* having two members.                                                     *)
C6_MalformedTolerance ==
    \A g \in {1, 2} :
        (Resolved /\ OneGoodOneBad(g) /\ HintsAdmit(GoodMember(g)))
        => IF NoNameHint /\ NoPathHint
           THEN crate = None /\ failed = Some("no matching crate found")
           ELSE crate = Some(GoodMember(g)) /\ failed = None

C6_Witness ==
    /\ Resolved
    /\ OneGoodOneBad(2)
    /\ inputs.crate = CrateArgs(None, Some(GoodMember(2).path))
    /\ crate = Some(GoodMember(2))
    /\ ws[1] \in warned

\* a template of white space only
OnlyWhiteSpace(tokens) ==
    \A i \in 1..Len(tokens) : tokens[i].kind = "text" /\ tokens[i].s \in {"", " ", "\n", " \n"}

FileGiven == inputs.pr.templateFile # None /\ inputs.pr.templateFile[1] # ""
InlineGiven == inputs.pr.template # None /\ ~OnlyWhiteSpace(inputs.pr.template[1])

BodyRendered == body # None

(* C7 as stated  Body-template source, first match wins: the file's        *)
(* contents if a template file is given, whatever they are; else the       *)
(* inline template if it is non-blank; else the default template.          *)
C7_Original ==
    BodyRendered
    => LET source == IF FileGiven THEN fileText[1]
                     ELSE IF InlineGiven THEN inputs.pr.template[1]
                     ELSE DefaultTemplate
       IN  template = Some(source) /\ body = Some(render(source, vars[1]).val)

(* C7 as amended  The body is rendered from the file's contents if a       *)
(* template file is given and its contents are non-blank after trimming;   *)
(* from the default template if a file is given and its contents are       *)
(* blank; with no file given, from the inline template if it is non-blank  *)
(* and from the default template otherwise.                                *)
C7_TemplateSource ==
    BodyRendered
    => LET source == IF FileGiven
                     THEN IF OnlyWhiteSpace(fileText[1]) THEN DefaultTemplate ELSE fileText[1]
                     ELSE IF InlineGiven THEN inputs.pr.template[1]
                     ELSE DefaultTemplate
       IN  template = Some(source) /\ body = Some(render(source, vars[1]).val)

C7_Witness ==
    /\ BodyRendered
    /\ FileGiven
    /\ InlineGiven
    /\ fileText = Some(<<Text(" \n")>>)
    /\ template = Some(DefaultTemplate)

(* C8  A member string with a non-local scheme that is handed to           *)
(* parseWorkspacePkg makes the resolution fail with the error of line 365; *)
(* it is not skipped with a warning and no crate is returned.              *)
C8_NonLocalIsFatal ==
    \A m \in parsed :
        (m.text = "member" /\ m.scheme # "file:")
        => /\ m \notin warned
           /\ crate = None
           /\ failed = Some("pkgid is returning a non-local crate")

TitleMentionsTitle ==
    \E i \in 1..Len(inputs.pr.title) : inputs.pr.title[i] = Tag("title")

(* C9  Rendering order: the title is rendered before the body, from locals *)
(* that hold no `title` (a title template naming it fails); the locals     *)
(* hold the rendered title from then on, the body is rendered from them,   *)
(* and the create-pull-request call carries that title and that body.      *)
C9_RenderingOrder ==
    /\ BodyRendered => title # None
    /\ (vars # None /\ TitleMentionsTitle)
       => title = None /\ failed = Some("title is not defined")
    /\ title # None
       => /\ title = Some(render(inputs.pr.title, [vars[1] EXCEPT !.title = None]).val)
          /\ vars[1].title = title
    /\ BodyRendered
       => body = Some(render(template[1], [vars[1] EXCEPT !.title = title]).val)
    /\ \A i \in 1..Len(calls) :
        IsCreatePR(calls[i])
        => /\ calls[i].options[1].title = title[1]
           /\ calls[i].options[1].body = body[1]

C9_Witness ==
    /\ pc = "done"
    /\ failed = None
    /\ IsCreatePR(calls[Len(calls)])
    /\ \E i \in 1..Len(template[1]) : template[1][i] = Tag("title")
    /\ title = Some("release: B v1.1.0")
    /\ body = Some("release: B v1.1.0 on release/patch")

\* the members the single hint selects: well-formed, with the hinted name
\* (the name hint alone is given) or the hinted path (the path hint alone)
HintedMembers ==
    {i \in 1..Len(ws) :
        /\ RegexMatches(ws[i])
        /\ IF NoPathHint
           THEN ws[i].name = inputs.crate.name[1]
           ELSE normalize(URLpathname(ws[i].url)) = inputs.crate.path[1]}

FirstHinted == CHOOSE i \in HintedMembers : \A j \in HintedMembers : i <= j

(* C10  Single-hint resolution: with exactly one of the two hints given,   *)
(* resolution returns the first well-formed member, in listed order, whose *)
(* name (or path) is the hint, with its own name, path and version; it     *)
(* fails and returns nothing when there is none.                           *)
C10_SingleHint ==
    (Resolved /\ (NoNameHint # NoPathHint))
    => IF HintedMembers = {}
       THEN crate = None /\ failed = Some("no matching crate found")
       ELSE /\ crate = Some(GoodMember(FirstHinted))
            /\ failed = None

C10_Witness ==
    /\ Resolved
    /\ NoNameHint /\ ~NoPathHint
    /\ HintedMembers = {1, 2}
    /\ ws[1].version # ws[2].version
    /\ ws[1].name # ws[2].name
    /\ crate = Some(GoodMember(1))

\* the members either hint selects: well-formed, with the hinted name or the
\* hinted path
EitherHinted ==
    {i \in 1..Len(ws) :
        /\ RegexMatches(ws[i])
        /\ \/ ws[i].name = inputs.crate.name[1]
           \/ normalize(URLpathname(ws[i].url)) = inputs.crate.path[1]}

FirstEitherHinted == CHOOSE i \in EitherHinted : \A j \in EitherHinted : i <= j

(* C11  Both-hints resolution: with both hints given, resolution returns   *)
(* the first member, in listed order, whose name is the name hint or whose *)
(* path is the path hint; hints that select different members are no      *)
(* error, and resolution fails only when no member matches either hint.    *)
C11_BothHints ==
    (Resolved /\ ~NoNameHint /\ ~NoPathHint)
    => IF EitherHinted = {}
       THEN crate = None /\ failed = Some("no matching crate found")
       ELSE /\ crate = Some(GoodMember(FirstEitherHinted))
            /\ failed = None

C11_Witness ==
    /\ Resolved
    /\ ~NoNameHint /\ ~NoPathHint
    /\ EitherHinted = {1, 2}
    /\ ws[1].name # inputs.crate.name[1]
    /\ ws[2].name = inputs.crate.name[1]
    /\ GoodMember(2).path # inputs.crate.path[1]
    /\ crate = Some(GoodMember(1))
    /\ failed = None

-----------------------------------------------------------------------------
IsProbeOf(c, name) == c.program = name /\ c.args = <<"--help">>
IsBinstall(c) == c.program = "cargo" /\ c.args[1] = "binstall"
IsInstall(c) == c.program = "cargo" /\ c.args[1] = "install"
IsInstaller(c) == IsBinstall(c) \/ IsInstall(c)

(* C12  Installer fallback chain: when the probe finds cargo-release no    *)
(* installer runs (and cargo-binstall is not probed); when it does not,    *)
(* cargo-binstall is probed, and cargo binstall alone runs if it is there, *)
(* cargo install alone if it is not; an installer that fails is the last   *)
(* call of the run, the other installer and cargo release never run, and   *)
(* cargo release only follows a successful probe or a successful install.  *)
C12_InstallerChain ==
    \A i \in 1..Len(calls) :
        /\ (IsProbeOf(calls[i], "cargo-release") /\ calls[i].exit = "0")
           => \A j \in 1..Len(calls) :
                ~IsInstaller(calls[j]) /\ ~IsProbeOf(calls[j], "cargo-binstall")
        /\ IsProbeOf(calls[i], "cargo-binstall")
           => /\ i > 1
              /\ IsProbeOf(calls[i - 1], "cargo-release")
              /\ calls[i - 1].exit # "0"
              /\ i < Len(calls)
                 => IF calls[i].exit = "0" THEN IsBinstall(calls[i + 1])
                    ELSE IsInstall(calls[i + 1])
        /\ IsInstaller(calls[i])
           => /\ i > 1
              /\ IsProbeOf(calls[i - 1], "cargo-binstall")
              /\ \A j \in 1..Len(calls) : IsInstaller(calls[j]) => j = i
              /\ calls[i].exit # "0"
                 => /\ i = Len(calls)
                    /\ pc = "done"
                    /\ failed # None
        /\ IsRelease(calls[i])
           => /\ i > 1
              /\ \/ IsProbeOf(calls[i - 1], "cargo-release") /\ calls[i - 1].exit = "0"
                 \/ IsInstaller(calls[i - 1]) /\ calls[i - 1].exit = "0"

C12_Witness ==
    /\ Len(calls) >= 3
    /\ IsInstall(calls[Len(calls)])
    /\ calls[Len(calls)].exit = "1"
    /\ calls[Len(calls) - 1] = ProbeCall("cargo-binstall", "spawn error")
    /\ calls[Len(calls) - 2] = ProbeCall("cargo-release", "1")
    /\ pc = "done"
    /\ failed = Some("cargo exited with code 1")

-----------------------------------------------------------------------------
(* C13  Confirmed version only: when the `version` output is set, cargo    *)
(* release has exited with code 0 and the metadata query after it too, the *)
(* output is the version of the package re-resolved from that state, it    *)
(* differs from the version the package had before; the templates' locals  *)
(* carry it as version.actual, the requested string as version.desired and *)
(* the old version as version.previous.                                    *)
C13_ConfirmedVersion ==
    /\ outputs["version"] # None
       => /\ \E i \in 1..Len(calls) : ReResolvedAt(i)
          /\ ReResolution.r.tag = "return"
          /\ outputs["version"] = Some(ReResolution.r.val.version)
          /\ outputs["version"] # Some(crate[1].version)
          /\ newVersion = outputs["version"]
    /\ vars # None
       => /\ outputs["version"] # None
          /\ vars[1].version.actual = outputs["version"][1]
          /\ vars[1].version.desired = inputs.version
          /\ vars[1].version.previous = crate[1].version

C13_Witness ==
    /\ vars # None
    /\ inputs.version = "patch"
    /\ outputs["version"] = Some("1.1.0")
    /\ vars[1].version.actual = "1.1.0"
    /\ vars[1].version.desired = "patch"
    /\ vars[1].version.previous = "1.0.0"

-----------------------------------------------------------------------------
(* C14  Resolution uniqueness: when the metadata lists exactly one member, *)
(* of the shape `name version (path+file://...)`, and neither hint is      *)
(* given, findCrate returns that member's name, its normalized path and    *)
(* its version, whatever they are.                                         *)
C14_SingleMember ==
    (Resolved /\ Len(ws) = 1 /\ RegexMatches(ws[1]) /\ NoNameHint /\ NoPathHint)
    => /\ crate = Some(GoodMember(1))
       /\ crate[1].name = ws[1].name
       /\ crate[1].version = ws[1].version
       /\ failed = None
       /\ pc = "toolExists.cargo-release"

C14_Witness ==
    /\ Resolved
    /\ Len(ws) = 1
    /\ RegexMatches(ws[1])
    /\ inputs.crate = CrateArgs(None, None)
    /\ ws[1] = Member("A", "1.0.0", "file:", <<"", "b", ".">>)
    /\ crate = Some(GoodMember(1))
    /\ failed = None

-----------------------------------------------------------------------------
MetadataQueries == {i \in 1..Len(calls) : IsMetadata(calls[i])}
ReleaseCalls == {i \in 1..Len(calls) : IsRelease(calls[i])}

(* C15  cargo release is called at most once, in the resolved package's    *)
(* path and with the requested version as its last argument; each resolve  *)
(* issues its own metadata query: a successful cargo release is followed   *)
(* by a query, a run that reaches the push has issued exactly two, one     *)
(* before cargo release and one right after it, and the version compared   *)
(* with the old one is the one the second query reads.                     *)
C15_FreshQuery ==
    LET queries == MetadataQueries
        releases == ReleaseCalls
    IN
    /\ Cardinality(releases) <= 1
    /\ \A r \in releases :
        /\ calls[r].options = Some([cwd |-> crate[1].path])
        /\ calls[r].args[Len(calls[r].args)] = inputs.version
        /\ \E m \in queries : m < r
        /\ (calls[r].exit = "0" /\ r < Len(calls)) => IsMetadata(calls[r + 1])
        /\ (calls[r].exit = "0" /\ r = Len(calls)) => pc = "pkgid"
        /\ (ReResolvedAt(r) /\ ReResolution.r.tag = "return")
           => IF ReResolution.r.val.version = crate[1].version
              THEN failed = Some("New and old versions are identical, not proceeding")
              ELSE newVersion = Some(ReResolution.r.val.version)
    /\ \A k \in 1..Len(calls) :
        IsPush(calls[k])
        => /\ Cardinality(queries) = 2
           /\ \E r \in releases :
                /\ \E m \in 1..(r - 1) : queries = {m, r + 1}
                /\ r + 1 < k

C15_Witness ==
    /\ \E k \in 1..Len(calls) : IsPush(calls[k])
    /\ Cardinality(MetadataQueries) = 2
    /\ \E r \in ReleaseCalls : ReResolvedAt(r)
    /\ newVersion = Some("1.1.0")
    /\ crate[1].version = "1.0.0"
    /\ inputs.version = "patch"

-----------------------------------------------------------------------------
\* the position after a probe of the program `name` that exited with `exit`
AfterProbe(name, exit) ==
    IF name = "cargo-release"
    THEN IF exit = "0" THEN "cargo release" ELSE "toolExists.cargo-binstall"
    ELSE IF exit = "0" THEN "cargo binstall" ELSE "cargo install"

IsProcess(c) == c.program \in {"git", "cargo", "cargo-release", "cargo-binstall"}

(* C16  The availability probe never fails the run: after a probe the run  *)
(* goes on, as with the program available exactly when it exited with code *)
(* 0, as with the program not available when it exited non-zero and when   *)
(* it could not be spawned; any other process call that exits non-zero is  *)
(* the last call of the run, which fails with an error that names the      *)
(* program and the exit code.                                              *)
C16_ProbeNeverFails ==
    \A i \in 1..Len(calls) :
        /\ IsProbe(calls[i])
           => IF i = Len(calls)
              THEN /\ failed = None
                   /\ pc = AfterProbe(calls[i].program, calls[i].exit)
              ELSE LET n == calls[i + 1]
                   IN  IF calls[i].program = "cargo-release"
                       THEN IF calls[i].exit = "0" THEN IsRelease(n)
                            ELSE IsProbeOf(n, "cargo-binstall")
                       ELSE IF calls[i].exit = "0" THEN IsBinstall(n) ELSE IsInstall(n)
        /\ (IsProcess(calls[i]) /\ ~IsProbe(calls[i]) /\ calls[i].exit # "0")
           => /\ i = Len(calls)
              /\ pc = "done"
              /\ failed # None
              /\ calls[i].exit = "1"
                 => failed = Some(calls[i].program \o " exited with code 1")

C16_Witness ==
    /\ Len(calls) >= 4
    /\ LET n == Len(calls)
       IN  /\ calls[n - 3] = ProbeCall("cargo-release", "spawn error")
           /\ calls[n - 2] = ProbeCall("cargo-binstall", "1")
           /\ IsInstall(calls[n - 1]) /\ calls[n - 1].exit = "0"
           /\ IsRelease(calls[n]) /\ calls[n].exit = "1"
    /\ failed = Some("cargo exited with code 1")

-----------------------------------------------------------------------------
BranchCreated == {i \in 1..Len(calls) : IsSwitch(calls[i]) /\ calls[i].exit = "0"}

(* C17  The outputs nest: `pr-url` set implies `version` set, `version`    *)
(* set implies `pr-branch` set.  `pr-branch` is set exactly when git       *)
(* switch -c has exited with code 0, to the branch it created, and stays   *)
(* set when the run fails later; no git call other than the push follows   *)
(* the creation, so the branch is not rolled back.                         *)
C17_OutputsNest ==
    /\ outputs["pr-url"] # None => outputs["version"] # None
    /\ outputs["version"] # None => outputs["pr-branch"] # None
    /\ outputs["pr-branch"] # None <=> BranchCreated # {}
    /\ \A i \in BranchCreated :
        /\ outputs["pr-branch"] = Some(calls[i].args[3])
        /\ \A j \in (i + 1)..Len(calls) : calls[j].program = "git" => IsPush(calls[j])
    /\ failed # None => pc = "done" /\ outputs["pr-url"] = None

C17_Witness ==
    /\ failed = Some("POST /repos/{owner}/{repo}/pulls failed")
    /\ pc = "done"
    /\ outputs["pr-branch"] = Some("release/patch")
    /\ outputs["version"] = Some("1.1.0")
    /\ outputs["pr-url"] = None

-----------------------------------------------------------------------------
(* C18  Branch-name consistency: the branch prefix, the separator and the  *)
(* requested version string, joined, are the branch git switch -c creates, *)
(* the `pr-branch` output, the --allow-branch argument of cargo release,   *)
(* the branch pushed, the branchName of the templates' locals and the head *)
(* of the pull request; a bump keyword stays the keyword.                  *)
C18_BranchName ==
    LET name == inputs.git.branchPrefix \o inputs.git.branchSeparator \o inputs.version
    IN  /\ outputs["pr-branch"] \in {None, Some(name)}
        /\ branchName \in {None, Some(name)}
        /\ vars # None => vars[1].branchName = name
        /\ \A i \in 1..Len(calls) :
            /\ IsSwitch(calls[i]) => calls[i].args = <<"switch", "-c", name>>
            /\ IsRelease(calls[i])
               => calls[i].args[8] = "--allow-branch" /\ calls[i].args[9] = name
            /\ IsPush(calls[i]) => calls[i].args = <<"push", "origin", name>>
            /\ IsCreatePR(calls[i]) => calls[i].options[1].head = name

C18_Witness ==
    /\ pc = "done"
    /\ failed = None
    /\ outputs["pr-url"] # None
    /\ inputs.version = "patch"
    /\ newVersion = Some("1.1.0")
    /\ outputs["pr-branch"] = Some("release/patch")
    /\ vars[1].branchName = "release/patch"
    /\ calls[Len(calls)].options[1].head = "release/patch"
    /\ \E i \in 1..Len(calls) : calls[i].args = <<"push", "origin", "release/patch">>
    /\ \E i \in 1..Len(calls) : IsRelease(calls[i]) /\ calls[i].args[9] = "release/patch"

-----------------------------------------------------------------------------
(* C19  Re-resolution selects the same package: when cargo release has     *)
(* exited with code 0, having changed nothing but version strings, and the *)
(* re-resolution with the resolved name and path as hints returns, the     *)
(* package it returns has the name and the path of the package resolved at *)
(* first.                                                                  *)
C19_SameMember ==
    \A i \in 1..Len(calls) :
        (ReResolvedAt(i) /\ ReResolution.r.tag = "return")
        => /\ ReResolution.r.val.name = crate[1].name
           /\ ReResolution.r.val.path = crate[1].path

====
